---- MODULE Spec2Model ----
(***************************************************************************)
(* Model of the picard skill: the scheduled sweep that mirrors workspace   *)
(* channels into federation rooms (src/picard.py) and the chat commands    *)
(* (src/picard/commands.py).                                               *)
(*                                                                         *)
(* Every helper of the source is an operator that returns the SET of       *)
(* outcomes the helper can have (the platform may answer or raise); the    *)
(* actions pick one outcome.  Each group of variables has its own          *)
(* specification; the other groups stay parked in their initial value.     *)
(***************************************************************************)
EXTENDS Integers, Sequences, FiniteSets, TLC

VARIABLES
    pl_room,        \* power levels: the m.room.power_levels document stored for the room
    pl_config,      \* power levels: [users_as_admin, room_pl_0] of the skill's config
    pl_hist,        \* power levels: per run of configure_room_power_levels,
                    \*   [ok, wrote, writes, before, after]
    pl_members,     \* power levels: users invited to the room
    rg_room,        \* related groups: the room's m.room.related_groups state,
                    \*   [set, groups]
    rg_config,      \* related groups: config "related_groups"
    rg_hist,        \* related groups: the call of update_related_groups made,
                    \*   [ok, before, read, written]
    rg_reads        \* related groups: the call of get_related_groups made,
                    \*   [set, code, ok, ret]

VARIABLES
    slack_channels,     \* workspace: the answer of slack.channels.list(), a list of
                        \*   [id, name, is_archived, topic]
    mem_seen_channels,  \* opsdroid memory "seen_channels": id -> <<name, alias, topic>>
    dc_results          \* discovery: the maps returned by the calls of get_new_channels

VARIABLES
    mx_exists,      \* federation: the room aliases that resolve to a room
    mx_joined,      \* federation: the ids of the rooms the connector user has joined
    sr_room,        \* intent_self_in_room: the alias asked for
    sr_hist         \* intent_self_in_room: per call, [ok, ret, before, after, calls,
                    \*   create, raised]

VARIABLES
    mem_options,    \* opsdroid memory "picard.options", per room: key -> value
    sk_cmd,         \* skip/unskip: the command in flight, [pc, sender, room, flag,
                    \*   skip, options]
    sk_hist         \* skip/unskip: per finished command, [sender, room, flag, skip,
                    \*   before, after, responses]

VARIABLES
    cr_pc,          \* !createroom: where each invocation is
    cr_lock,        \* !createroom: the invocation holding _slack_channel_lock, or 0
    cr_done         \* !createroom: the steps each invocation has completed

VARIABLES
    sw,                 \* sweep: per invocation of mirror_slack_channels, its locals
                        \*   and where it is
    sw_active,          \* sweep: the triggers that fire (timer, manual)
    sw_config,          \* sweep: the skill's config
    sw_calls,           \* sweep: the calls the running sweep has issued,
                        \*   <<channel id, call>>
    sw_hist,            \* sweep: per finished sweep, what it did
    sw_faults,          \* sweep: platform calls that raised so far
    mx_members,         \* federation: <<room id, user>> for the users invited
    mx_power_levels,    \* federation: room id -> power-levels document
    mx_related_groups,  \* federation: room id -> [set, groups]
    mx_group            \* federation: the community, [capable, exists, profile, users]

VARIABLES
    ur_exists,      \* intent_user_in_room: the room aliases that resolve to a room
    ur_members,     \* intent_user_in_room: the users in the room asked for
    ur_room,        \* intent_user_in_room: the room asked for, an alias or an id
    ur_user,        \* intent_user_in_room: the user asked for
    ur_hist         \* intent_user_in_room: per call, [ok, ret, room_exists, lookup,
                    \*   invite, calls]

urVars == <<ur_exists, ur_members, ur_room, ur_user, ur_hist>>

VARIABLES
    ac_group,       \* admin_of_community: the community, [capable, exists, profile,
                    \*   users, rooms]
    ac_hist         \* admin_of_community: per call, [ok, ret, raised, before]

acVars == <<ac_group, ac_hist>>

VARIABLES
    mem_autoinvite_users,   \* opsdroid memory "autoinvite_users": [set, users]
    ai_hist                 \* !autoinvite: per command, [enable, sender, before,
                            \*   after, wrote, response]

aiVars == <<mem_autoinvite_users, ai_hist>>

swVars == <<sw, sw_active, sw_config, sw_calls, sw_hist, sw_faults, mx_members,
            mx_power_levels, mx_related_groups, mx_group>>

skVars == <<mem_options, sk_cmd, sk_hist>>

crVars == <<cr_pc, cr_lock, cr_done>>

dcVars == <<slack_channels, mem_seen_channels, dc_results>>

srVars == <<mx_exists, mx_joined, sr_room, sr_hist>>

plVars == <<pl_room, pl_config, pl_hist, pl_members>>

rgVars == <<rg_room, rg_config, rg_hist, rg_reads>>

vars == <<plVars, rgVars, dcVars, srVars, skVars, crVars, swVars, urVars, acVars, aiVars>>

-----------------------------------------------------------------------------
(* Python dicts: a map is a function whose DOMAIN is the set of keys.      *)

EmptyMap == [k \in {} |-> 0]

MapSet(m, k, v) == [x \in DOMAIN m \cup {k} |-> IF x = k THEN v ELSE m[x]]

MapsOver(Keys, Vals) == UNION {[D -> Vals] : D \in SUBSET Keys}

\* Python lists are sequences.
Range(l) == {l[i] : i \in DOMAIN l}

NoDuplicates(l) == \A i, j \in DOMAIN l : l[i] = l[j] => i = j

ListsUpTo(S, n) == UNION {[1..k -> S] : k \in 0..n}

\* list(set(l)): the distinct elements of l, in whatever order the set gives.
list_of_set(l) ==
    {r \in [1..Cardinality(Range(l)) -> Range(l)] : Range(r) = Range(l)}

-----------------------------------------------------------------------------
(* Power levels (src/picard.py, 199-261)                                   *)

MaxRuns == 2

AdminLevel == 100

MatrixUsers == {"@alice:ex", "@bob:ex", "@eve:ex"}

UserLevels == {50, 100}

NotificationKeys == {"room", "other"}

NotificationLevels == {0, 50}

\* A power-levels document: `keys` are the top-level keys that are present.
PowerLevelDocs ==
    { [keys |-> ks \cup {"events_default"}, users |-> u, notifications |-> n,
       events_default |-> e] :
        ks \in SUBSET {"users", "notifications"},
        u \in MapsOver(MatrixUsers, UserLevels),
        n \in MapsOver(NotificationKeys, NotificationLevels),
        e \in {0, 50} }

WellFormedDoc(d) ==
    /\ ("users" \notin d.keys => d.users = EmptyMap)
    /\ ("notifications" \notin d.keys => d.notifications = EmptyMap)

PowerLevelConfigs ==
    { [users_as_admin |-> a, room_pl_0 |-> p] :
        a \in {<<>>, <<"@alice:ex">>, <<"@alice:ex", "@bob:ex">>},
        p \in BOOLEAN }

\* The invite inside intent_user_in_room: for a member the platform answers
\* "... already in the room", else the user is invited; or the call fails for
\* another reason.  `raised` counts the failures of the platform.
invite_user(members, user) ==
    {IF user \in members
       THEN [ok |-> FALSE, already |-> TRUE, members |-> members, raised |-> 0]
       ELSE [ok |-> TRUE, already |-> FALSE, members |-> members \cup {user},
             raised |-> 0],
     [ok |-> FALSE, already |-> FALSE, members |-> members, raised |-> 1]}

\* intent_user_in_room on a room that exists: the room id, or None.
intent_user_in_room(members, user) ==
    { [ret |-> IF o.ok \/ o.already THEN "room" ELSE "None", members |-> o.members,
       raised |-> o.raised] :
        o \in invite_user(members, user) }

\* Mutant: the level is raised only for a user with no entry yet.
user_is_room_admin_only_new(power_levels, mxid) ==
    IF "users" \notin power_levels.keys
      THEN [ok |-> FALSE, doc |-> power_levels]
      ELSE [ok |-> TRUE,
            doc |-> IF mxid \in DOMAIN power_levels.users
                      THEN power_levels
                      ELSE [power_levels EXCEPT !.users = MapSet(@, mxid, AdminLevel)]]

\* power_levels['users'][mxid] = 100 unless it is 100: KeyError without 'users'.
user_is_room_admin(power_levels, mxid) ==
    IF "users" \notin power_levels.keys
      THEN [ok |-> FALSE, doc |-> power_levels]
      ELSE [ok |-> TRUE,
            doc |-> IF mxid \in DOMAIN power_levels.users
                       /\ power_levels.users[mxid] = AdminLevel
                      THEN power_levels
                      ELSE [power_levels EXCEPT !.users = MapSet(@, mxid, AdminLevel)]]

\* Mutant: the notifications map is replaced, not merged.
room_notifications_pl0_replace(power_levels) ==
    [power_levels EXCEPT !.keys = @ \cup {"notifications"},
                         !.notifications = MapSet(EmptyMap, "room", 0)]

\* notifications = power_levels.get('notifications', {}); notifications['room'] = 0
room_notifications_pl0(power_levels) ==
    [power_levels EXCEPT !.keys = @ \cup {"notifications"},
                         !.notifications = MapSet(@, "room", 0)]

\* The loop "for user in users_as_admin": every way the invites can go.
\* A state of the loop is [ok, doc, members, raised].
RECURSIVE add_admin_users(_, _)
add_admin_users(st, users) ==
    IF users = <<>> \/ ~st.ok THEN {st}
    ELSE UNION {
           LET g == user_is_room_admin(st.doc, Head(users))
           IN  add_admin_users([ok |-> g.ok, doc |-> g.doc, members |-> i.members,
                                raised |-> st.raised + i.raised],
                               Tail(users)) :
           i \in intent_user_in_room(st.members, Head(users)) }

\* Mutant: the document is written back whatever the config asks for.
modifies_room_state_always(config) == TRUE

\* "Only actually modify room state if we need to": if users_as_admin or room_pl_0
modifies_room_state(config) == config.users_as_admin # <<>> \/ config.room_pl_0

\* configure_room_power_levels: the outcomes [ok, wrote, writes, doc, members,
\* raised], where `doc` is the document stored for the room afterwards and
\* `writes` the calls of set_power_levels issued: the read fails, or the loop
\* runs (a KeyError ends it) and the write, if any, goes through or fails.
configure_room_power_levels(stored, config, members) ==
    LET getFails == {[ok |-> FALSE, wrote |-> FALSE, writes |-> 0, doc |-> stored,
                      members |-> members, raised |-> 1]}
        afterLoop == add_admin_users([ok |-> TRUE, doc |-> stored, members |-> members,
                                      raised |-> 0],
                                     config.users_as_admin)
        finish(st) ==
            IF ~st.ok
              THEN {[ok |-> FALSE, wrote |-> FALSE, writes |-> 0, doc |-> stored,
                     members |-> st.members, raised |-> st.raised]}
              ELSE LET d == IF config.room_pl_0 THEN room_notifications_pl0(st.doc)
                                                ELSE st.doc
                   IN  IF modifies_room_state(config)
                         THEN {[ok |-> TRUE, wrote |-> TRUE, writes |-> 1, doc |-> d,
                                members |-> st.members, raised |-> st.raised],
                               [ok |-> FALSE, wrote |-> FALSE, writes |-> 1,
                                doc |-> stored, members |-> st.members,
                                raised |-> st.raised + 1]}
                         ELSE {[ok |-> TRUE, wrote |-> FALSE, writes |-> 0,
                                doc |-> stored, members |-> st.members,
                                raised |-> st.raised]}
    IN  getFails \cup UNION {finish(st) : st \in afterLoop}

ParkedPL ==
    /\ pl_room = [keys |-> {"events_default"}, users |-> EmptyMap,
                  notifications |-> EmptyMap, events_default |-> 0]
    /\ pl_config = [users_as_admin |-> <<>>, room_pl_0 |-> FALSE]
    /\ pl_hist = <<>>
    /\ pl_members = {}

InitPL ==
    /\ pl_room \in {d \in PowerLevelDocs : WellFormedDoc(d)}
    /\ pl_config \in PowerLevelConfigs
    /\ pl_hist = <<>>
    /\ pl_members = {}

ConfigureRoomPowerLevels ==
    /\ Len(pl_hist) < MaxRuns
    /\ \E o \in configure_room_power_levels(pl_room, pl_config, pl_members) :
         /\ pl_room' = o.doc
         /\ pl_hist' = Append(pl_hist, [ok |-> o.ok, wrote |-> o.wrote,
                                        writes |-> o.writes,
                                        before |-> pl_room, after |-> o.doc])
         /\ pl_members' = o.members
    /\ UNCHANGED pl_config

-----------------------------------------------------------------------------
(* Related groups (src/picard.py, 264-306)                                 *)

MaxGroups == 2

Groups == {"+a:ex", "+b:ex", "+c:ex"}

\* The answer to GET /rooms/{roomid}/state/m.room.related_groups.
send_get_related_groups(stored) ==
    (IF stored.set THEN {[code |-> 200, groups |-> stored.groups]}
                   ELSE {[code |-> 404, groups |-> <<>>]})
    \cup {[code |-> 500, groups |-> <<>>]}

\* Mutant: every error of the platform is re-raised, the 404 too.
get_related_groups_raise_all(r) ==
    IF r.code = 200 THEN [ok |-> TRUE, groups |-> r.groups]
    ELSE [ok |-> FALSE, groups |-> <<>>]

\* What get_related_groups makes of the platform's answer r: json['groups'],
\* [] on a 404, any other error re-raised.
get_related_groups_answer(r) ==
    IF r.code = 200 THEN [ok |-> TRUE, groups |-> r.groups]
    ELSE IF r.code # 404 THEN [ok |-> FALSE, groups |-> <<>>]
    ELSE [ok |-> TRUE, groups |-> <<>>]

\* get_related_groups: the outcomes [ok, groups].
get_related_groups(stored) ==
    { get_related_groups_answer(r) : r \in send_get_related_groups(stored) }

\* set_related_groups: the state event is stored, or the call raises.
set_related_groups(stored, communities) ==
    {[ok |-> TRUE, stored |-> [set |-> TRUE, groups |-> communities]],
     [ok |-> FALSE, stored |-> stored]}

\* Mutant: the configured groups replace the existing ones.
update_related_groups_replace(stored, communities) ==
    UNION {
      IF ~g.ok THEN {[ok |-> FALSE, stored |-> stored, read |-> <<>>, written |-> <<>>,
                      raised |-> 1]}
      ELSE UNION {
             { [ok |-> w.ok, stored |-> w.stored, read |-> g.groups,
                written |-> new_groups, raised |-> IF w.ok THEN 0 ELSE 1] :
                 w \in set_related_groups(stored, new_groups) } :
             new_groups \in list_of_set(communities) } :
      g \in get_related_groups(stored) }

\* update_related_groups: existing += communities; list(set(existing)) is
\* written.  The outcomes [ok, stored, read, written, raised].
update_related_groups(stored, communities) ==
    UNION {
      IF ~g.ok THEN {[ok |-> FALSE, stored |-> stored, read |-> <<>>, written |-> <<>>,
                      raised |-> 1]}
      ELSE UNION {
             { [ok |-> w.ok, stored |-> w.stored, read |-> g.groups,
                written |-> new_groups, raised |-> IF w.ok THEN 0 ELSE 1] :
                 w \in set_related_groups(stored, new_groups) } :
             new_groups \in list_of_set(g.groups \o communities) } :
      g \in get_related_groups(stored) }

ParkedRG ==
    /\ rg_room = [set |-> FALSE, groups |-> <<>>]
    /\ rg_config = <<>>
    /\ rg_hist = <<>>
    /\ rg_reads = <<>>

InitRG ==
    /\ rg_room \in {[set |-> FALSE, groups |-> <<>>]}
                   \cup {[set |-> TRUE, groups |-> l] : l \in ListsUpTo(Groups, MaxGroups)}
    /\ rg_config \in ListsUpTo(Groups, MaxGroups)
    /\ rg_hist = <<>>
    /\ rg_reads = <<>>

\* One call of update_related_groups on the inputs drawn by InitRG.
UpdateRelatedGroups ==
    /\ rg_hist = <<>>
    /\ \E o \in update_related_groups(rg_room, rg_config) :
         /\ rg_room' = o.stored
         /\ rg_hist' = Append(rg_hist, [ok |-> o.ok, before |-> rg_room.groups,
                                        read |-> o.read, written |-> o.written])
    /\ UNCHANGED <<rg_config, rg_reads>>

\* One call of get_related_groups on the room, before or after the update.
GetRelatedGroups ==
    /\ rg_reads = <<>>
    /\ \E r \in send_get_related_groups(rg_room) :
         LET o == get_related_groups_answer(r)
         IN  rg_reads' = Append(rg_reads, [set |-> rg_room.set, code |-> r.code,
                                           ok |-> o.ok, ret |-> o.groups])
    /\ UNCHANGED <<rg_room, rg_config, rg_hist>>

-----------------------------------------------------------------------------
(* Channel discovery (src/picard.py, 39-70)                                *)

MaxChannels == 2

ChannelIds == {"C1", "C2", "C3"}

ChannelName == [c \in ChannelIds |->
                  IF c = "C1" THEN "general" ELSE IF c = "C2" THEN "random" ELSE "dev"]

Topics == {"", "talk"}

room_alias_prefix == "br-"

server_name == "example.org"

\* The channel lists the workspace can answer: no id twice.
ChannelLists ==
    { l \in ListsUpTo([id : ChannelIds, is_archived : BOOLEAN, topic : Topics],
                      MaxChannels) :
        \A i, j \in DOMAIN l : l[i].id = l[j].id => i = j }

Channel(c) == [id |-> c.id, name |-> ChannelName[c.id], is_archived |-> c.is_archived,
               topic |-> c.topic]

\* {c['id']: c['name'] for c in channels}
get_channel_mapping(channels) ==
    [id \in {channels[i].id : i \in DOMAIN channels} |->
        channels[CHOOSE i \in DOMAIN channels :
                    /\ channels[i].id = id
                    /\ \A j \in DOMAIN channels : channels[j].id = id => j <= i].name]

\* Mutant: the alias is built without the prefix.
room_alias_no_prefix(channel_name) == "#" \o channel_name \o ":" \o server_name

\* alias = f"#{prefix}{channel_name}:{server_name}"
room_alias(channel_name) ==
    "#" \o room_alias_prefix \o channel_name \o ":" \o server_name

\* Mutant: archived channels are not filtered out.
RECURSIVE get_new_channels_keep_archived(_, _, _, _)
get_new_channels_keep_archived(channels, seen_channels, i, new_channels) ==
    IF i > Len(channels) THEN new_channels
    ELSE LET channel == channels[i]
         IN  IF channel.id \notin DOMAIN seen_channels
               THEN LET channel_name == get_channel_mapping(channels)[channel.id]
                    IN  get_new_channels_keep_archived(channels, seen_channels, i + 1,
                          MapSet(new_channels, channel.id,
                                 <<channel_name, room_alias(channel_name), channel.topic>>))
               ELSE get_new_channels_keep_archived(channels, seen_channels, i + 1,
                                                   new_channels)

\* The loop of get_new_channels from position i on, new_channels so far.
RECURSIVE get_new_channels(_, _, _, _)
get_new_channels(channels, seen_channels, i, new_channels) ==
    IF i > Len(channels) THEN new_channels
    ELSE LET channel == channels[i]
         IN  IF channel.is_archived
               THEN get_new_channels(channels, seen_channels, i + 1, new_channels)
             ELSE IF channel.id \notin DOMAIN seen_channels
               THEN LET channel_name == get_channel_mapping(channels)[channel.id]
                    IN  get_new_channels(channels, seen_channels, i + 1,
                          MapSet(new_channels, channel.id,
                                 <<channel_name, room_alias(channel_name), channel.topic>>))
               ELSE get_new_channels(channels, seen_channels, i + 1, new_channels)

\* A ledger: the entries a sweep wrote earlier for the ids in S.
Ledger(S) == [id \in S |-> <<ChannelName[id], room_alias(ChannelName[id]), "">>]

ParkedDC ==
    /\ slack_channels = <<>>
    /\ mem_seen_channels = EmptyMap
    /\ dc_results = <<>>

InitDC ==
    /\ slack_channels \in {[i \in DOMAIN l |-> Channel(l[i])] : l \in ChannelLists}
    /\ mem_seen_channels \in {Ledger(S) : S \in SUBSET ChannelIds}
    /\ dc_results = <<>>

GetNewChannels ==
    /\ Len(dc_results) < MaxRuns
    /\ dc_results' = Append(dc_results,
                            get_new_channels(slack_channels, mem_seen_channels, 1, EmptyMap))
    /\ UNCHANGED <<slack_channels, mem_seen_channels>>

-----------------------------------------------------------------------------
(* The connector user in a room (src/picard.py, 82-130)                    *)

StartsWith(str, prefix) ==
    Len(str) >= Len(prefix) /\ SubSeq(str, 1, Len(prefix)) = prefix

\* The id of the room an alias resolves to.
RoomIdOf(alias) == "!" \o SubSeq(alias, 2, Len(alias))

Aliases == {room_alias(ChannelName[c]) : c \in ChannelIds}

\* room_id_if_exists: the outcomes [ok, ret, raised]; ret is "None" on a 404,
\* any other error is re-raised.
room_id_if_exists(exists, room) ==
    IF StartsWith(room, "!") THEN {[ok |-> TRUE, ret |-> room, raised |-> 0]}
    ELSE {IF room \in exists THEN [ok |-> TRUE, ret |-> RoomIdOf(room), raised |-> 0]
                              ELSE [ok |-> TRUE, ret |-> "None", raised |-> 0],
          [ok |-> FALSE, ret |-> "None", raised |-> 1]}

\* create_room(alias=...): the room is created with its creator in it, or the
\* call raises: the alias was taken by someone else meanwhile, or another error.
create_room(exists, joined, room) ==
    {[ok |-> TRUE, exists |-> exists \cup {room}, joined |-> joined \cup {RoomIdOf(room)}],
     [ok |-> FALSE, exists |-> exists \cup {room}, joined |-> joined],
     [ok |-> FALSE, exists |-> exists, joined |-> joined]}

\* join_room(room_id): joined, or the call raises.
join_room(joined, room_id) ==
    {[ok |-> TRUE, joined |-> joined \cup {room_id}],
     [ok |-> FALSE, joined |-> joined]}

\* "is_in_room = is_in_matrix_room(...)" is not awaited: is_in_room is a
\* coroutine object, which is true whatever the joined rooms are.
is_in_room_unawaited(joined, room_id) == TRUE

\* Mutant: a failed create_room is not followed by a lookup.
room_id_after_failed_create_none(exists, room) ==
    {[ok |-> FALSE, ret |-> "None", raised |-> 0]}

\* What "except MatrixRequestError: room_id = await get_room_id(room)" gives
\* after a failed create_room: the id, or the 404 (or another error) raised.
room_id_after_failed_create(exists, room) ==
    {IF room \in exists THEN [ok |-> TRUE, ret |-> RoomIdOf(room), raised |-> 0]
                         ELSE [ok |-> FALSE, ret |-> "None", raised |-> 0],
     [ok |-> FALSE, ret |-> "None", raised |-> 1]}

\* How a call of create_room for an alias that did not resolve ended: "ok",
\* "raced" (it raised and the alias resolves now) or "failed".
create_outcome(c, room) ==
    IF c.ok THEN "ok" ELSE IF room \in c.exists THEN "raced" ELSE "failed"

\* intent_self_in_room: the outcomes [ok, ret, exists, joined, calls, create,
\* raised].
intent_self_in_room(exists, joined, room) ==
    UNION {
      IF ~r.ok
        THEN {[ok |-> FALSE, ret |-> "None", exists |-> exists, joined |-> joined,
               calls |-> {"get_room_id"}, create |-> "none", raised |-> 1]}
      ELSE IF r.ret = "None"
        THEN UNION {
               LET after == IF c.ok THEN {[ok |-> TRUE, ret |-> RoomIdOf(room),
                                           raised |-> 0]}
                            ELSE {[g EXCEPT !.raised = @ + 1] :
                                     g \in room_id_after_failed_create(c.exists, room)}
               IN  UNION {
                     IF ~a.ok
                       THEN {[ok |-> FALSE, ret |-> "None", exists |-> c.exists,
                              joined |-> c.joined,
                              calls |-> {"get_room_id", "create_room"},
                              create |-> create_outcome(c, room),
                              raised |-> a.raised]}
                       ELSE { [ok |-> j.ok, ret |-> IF j.ok THEN a.ret ELSE "None",
                               exists |-> c.exists, joined |-> j.joined,
                               calls |-> {"get_room_id", "create_room", "join_room"},
                               create |-> create_outcome(c, room),
                               raised |-> a.raised + (IF j.ok THEN 0 ELSE 1)] :
                                j \in join_room(c.joined, a.ret) } :
                     a \in after } :
               c \in create_room(exists, joined, room) }
      ELSE IF ~is_in_room_unawaited(joined, r.ret)
        THEN { [ok |-> j.ok, ret |-> IF j.ok THEN r.ret ELSE "None", exists |-> exists,
                joined |-> j.joined, calls |-> {"get_room_id", "join_room"},
                create |-> "none", raised |-> IF j.ok THEN 0 ELSE 1] :
                 j \in join_room(joined, r.ret) }
      ELSE {[ok |-> TRUE, ret |-> r.ret, exists |-> exists, joined |-> joined,
             calls |-> {"get_room_id"}, create |-> "none", raised |-> 0]} :
      r \in room_id_if_exists(exists, room) }

ParkedSR ==
    /\ mx_exists = {}
    /\ mx_joined = {}
    /\ sr_room = "None"
    /\ sr_hist = <<>>

InitSR ==
    /\ mx_exists \in SUBSET Aliases
    /\ mx_joined \in SUBSET {RoomIdOf(a) : a \in mx_exists}
    /\ sr_room \in Aliases
    /\ sr_hist = <<>>

IntentSelfInRoom ==
    /\ Len(sr_hist) < MaxRuns
    /\ \E o \in intent_self_in_room(mx_exists, mx_joined, sr_room) :
         /\ mx_exists' = o.exists
         /\ mx_joined' = o.joined
         /\ sr_hist' = Append(sr_hist, [ok |-> o.ok, ret |-> o.ret,
                                        before |-> [exists |-> mx_exists,
                                                    joined |-> mx_joined],
                                        after |-> [exists |-> o.exists,
                                                   joined |-> o.joined],
                                        calls |-> o.calls, create |-> o.create,
                                        raised |-> o.raised])
    /\ UNCHANGED sr_room

-----------------------------------------------------------------------------
(* A user in a room (src/picard.py, 133-150)                               *)

UserRooms == {room_alias("general"), room_alias("random")}

InvitedUsers == {"@alice:ex", "@slackbridge:ex"}

\* The room an alias or an id stands for exists.
RoomExists(exists, room) ==
    IF StartsWith(room, "!") THEN \E a \in exists : RoomIdOf(a) = room
                             ELSE room \in exists

\* Mutant: "already in the room" counts as a failed invite.
invite_result_strict(o, room_id) == IF o.ok THEN room_id ELSE "None"

\* What intent_user_in_room returns after the invite o: the room id when the
\* invite went through or the error says "already in the room", else None.
invite_result(o, room_id) == IF o.ok \/ o.already THEN room_id ELSE "None"

\* The invite into room_id: into a room that is not there it fails.
invite_user_to(exists, members, room_id, user) ==
    IF RoomExists(exists, room_id) THEN invite_user(members, user)
    ELSE {[ok |-> FALSE, already |-> FALSE, members |-> members, raised |-> 0]}

\* intent_user_in_room(opsdroid, user, room) with the room resolved by
\* room_id_if_exists: the outcomes [ok, ret, members, lookup, invite, calls].
intent_user_in_room_resolved(exists, members, user, room) ==
    UNION {
      IF ~r.ok
        THEN {[ok |-> FALSE, ret |-> "None", members |-> members, lookup |-> "error",
               invite |-> "none", calls |-> {"get_room_id"}]}
      ELSE IF r.ret = "None"
        THEN {[ok |-> TRUE, ret |-> "None", members |-> members, lookup |-> "404",
               invite |-> "none", calls |-> {"get_room_id"}]}
      ELSE { [ok |-> TRUE, ret |-> invite_result(o, r.ret), members |-> o.members,
              lookup |-> IF StartsWith(room, "!") THEN "none" ELSE "found",
              invite |-> IF o.ok THEN "ok" ELSE IF o.already THEN "already" ELSE "failed",
              calls |-> (IF StartsWith(room, "!") THEN {} ELSE {"get_room_id"})
                          \cup {"invite_user"}] :
               o \in invite_user_to(exists, members, r.ret, user) } :
      r \in room_id_if_exists(exists, room) }

ParkedUR ==
    /\ ur_exists = {}
    /\ ur_members = {}
    /\ ur_room = "None"
    /\ ur_user = "None"
    /\ ur_hist = <<>>

InitUR ==
    /\ ur_exists \in SUBSET UserRooms
    /\ ur_room \in UserRooms \cup {RoomIdOf(a) : a \in UserRooms}
    /\ ur_user \in InvitedUsers
    /\ ur_members \in IF RoomExists(ur_exists, ur_room) THEN SUBSET InvitedUsers ELSE {{}}
    /\ ur_hist = <<>>

IntentUserInRoom ==
    /\ Len(ur_hist) < MaxRuns
    /\ \E o \in intent_user_in_room_resolved(ur_exists, ur_members, ur_user, ur_room) :
         /\ ur_members' = o.members
         /\ ur_hist' = Append(ur_hist,
               [ok |-> o.ok, ret |-> o.ret,
                room_exists |-> RoomExists(ur_exists, ur_room),
                lookup |-> o.lookup, invite |-> o.invite, calls |-> o.calls])
    /\ UNCHANGED <<ur_exists, ur_room, ur_user>>

-----------------------------------------------------------------------------
(* !skip / !unskip (src/picard/commands.py, 179-212)                       *)

MaxSkipCommands == 2

users_as_admin == {"@alice:ex"}

Senders == {"@alice:ex", "@eve:ex"}

CommandRooms == {RoomIdOf(room_alias("general")), RoomIdOf(room_alias("random"))}

\* flags = ("name", "description", "avatar")
flags == {"name", "description", "avatar"}

\* What \w+ can match in the model: the three flags and one other word.
FlagWords == flags \cup {"topic"}

SkipKey(flag) == "skip_room_" \o flag

NoCommand == [pc |-> "idle", sender |-> "", room |-> "", flag |-> "", skip |-> FALSE,
              options |-> EmptyMap, responses |-> <<>>]

ParkedSK ==
    /\ mem_options = [r \in CommandRooms |-> EmptyMap]
    /\ sk_cmd = NoCommand
    /\ sk_hist = <<>>

InitSK == ParkedSK

\* Whether the command goes on after the check "if flag not in flags": the
\* branch responds and does not return.
flag_check_continues(flag) == TRUE

\* room_skip_command up to the read of the options: the sender check, the flag
\* check and its response.
RoomSkipBegin ==
    /\ sk_cmd.pc = "idle"
    /\ Len(sk_hist) < MaxSkipCommands
    /\ \E sender \in Senders, room \in CommandRooms, flag \in FlagWords, skip \in BOOLEAN :
         LET cmd == [NoCommand EXCEPT !.sender = sender, !.room = room, !.flag = flag,
                                      !.skip = skip]
         IN  IF sender \notin users_as_admin
               THEN /\ sk_hist' = Append(sk_hist,
                          [sender |-> sender, room |-> room, flag |-> flag, skip |-> skip,
                           before |-> mem_options, after |-> mem_options,
                           responses |-> <<"not authorised">>])
                    /\ sk_cmd' = NoCommand
             ELSE IF flag \notin flags
               THEN IF flag_check_continues(flag)
                      THEN /\ sk_cmd' = [cmd EXCEPT !.pc = "get",
                                                    !.responses = <<"must be one of">>]
                           /\ sk_hist' = sk_hist
                      ELSE /\ sk_hist' = Append(sk_hist,
                                 [sender |-> sender, room |-> room, flag |-> flag,
                                  skip |-> skip, before |-> mem_options,
                                  after |-> mem_options,
                                  responses |-> <<"must be one of">>])
                           /\ sk_cmd' = NoCommand
             ELSE /\ sk_cmd' = [cmd EXCEPT !.pc = "get"]
                  /\ sk_hist' = sk_hist
    /\ UNCHANGED mem_options

\* options = await memory.get("picard.options") or {}
RoomSkipGet ==
    /\ sk_cmd.pc = "get"
    /\ sk_cmd' = [sk_cmd EXCEPT !.pc = "put", !.options = mem_options[sk_cmd.room]]
    /\ UNCHANGED <<mem_options, sk_hist>>

\* Mutant: the options put hold the one key of the command and nothing else.
RoomSkipPut_replace ==
    /\ sk_cmd.pc = "put"
    /\ LET options == MapSet(EmptyMap, SkipKey(sk_cmd.flag), sk_cmd.skip)
           after == [mem_options EXCEPT ![sk_cmd.room] = options]
       IN  /\ mem_options' = after
           /\ sk_hist' = Append(sk_hist,
                 [sender |-> sk_cmd.sender, room |-> sk_cmd.room, flag |-> sk_cmd.flag,
                  skip |-> sk_cmd.skip, before |-> mem_options, after |-> after,
                  responses |-> Append(sk_cmd.responses, "settings updated")])
    /\ sk_cmd' = NoCommand

\* options.update({f"skip_room_{flag}": skip}); memory.put; the last response.
RoomSkipPut ==
    /\ sk_cmd.pc = "put"
    /\ LET options == MapSet(sk_cmd.options, SkipKey(sk_cmd.flag), sk_cmd.skip)
           after == [mem_options EXCEPT ![sk_cmd.room] = options]
       IN  /\ mem_options' = after
           /\ sk_hist' = Append(sk_hist,
                 [sender |-> sk_cmd.sender, room |-> sk_cmd.room, flag |-> sk_cmd.flag,
                  skip |-> sk_cmd.skip, before |-> mem_options, after |-> after,
                  responses |-> Append(sk_cmd.responses, "settings updated")])
    /\ sk_cmd' = NoCommand

-----------------------------------------------------------------------------
(* !autoinvite / !autoinvite disable (src/picard/commands.py, 70-95)       *)

MaxAutoInviteCommands == 3

AutoInviteSenders == {"@alice:ex", "@bob:ex", "@eve:ex"}

\* list.remove(x): the list without its first x.
RECURSIVE list_remove(_, _)
list_remove(l, x) ==
    IF l = <<>> THEN <<>>
    ELSE IF Head(l) = x THEN Tail(l)
    ELSE <<Head(l)>> \o list_remove(Tail(l), x)

\* users = await memory.get("autoinvite_users") or []
autoinvite_users(stored) == IF stored.set THEN stored.users ELSE <<>>

\* Mutant: the sender is appended whether listed or not.
sender_in_users_never(sender, users) == FALSE

\* "if sender in users" / "if sender not in users"
sender_in_users(sender, users) == sender \in Range(users)

ParkedAI ==
    /\ mem_autoinvite_users = [set |-> FALSE, users |-> <<>>]
    /\ ai_hist = <<>>

InitAI == ParkedAI

\* on_auto_invite: a listed sender is told so; else the sender is appended and
\* the list is put.
OnAutoInvite ==
    /\ Len(ai_hist) < MaxAutoInviteCommands
    /\ \E sender \in AutoInviteSenders :
         LET users == autoinvite_users(mem_autoinvite_users)
         IN  IF sender_in_users(sender, users)
               THEN /\ ai_hist' = Append(ai_hist,
                          [enable |-> TRUE, sender |-> sender, before |-> users,
                           after |-> users, wrote |-> FALSE,
                           response |-> "already enabled"])
                    /\ UNCHANGED mem_autoinvite_users
               ELSE /\ mem_autoinvite_users' = [set |-> TRUE, users |-> Append(users, sender)]
                    /\ ai_hist' = Append(ai_hist,
                          [enable |-> TRUE, sender |-> sender, before |-> users,
                           after |-> Append(users, sender), wrote |-> TRUE,
                           response |-> "will be invited"])

\* on_disable_auto_invite: a sender not listed is told so; else the sender is
\* removed and the list is put.
OnDisableAutoInvite ==
    /\ Len(ai_hist) < MaxAutoInviteCommands
    /\ \E sender \in AutoInviteSenders :
         LET users == autoinvite_users(mem_autoinvite_users)
         IN  IF ~sender_in_users(sender, users)
               THEN /\ ai_hist' = Append(ai_hist,
                          [enable |-> FALSE, sender |-> sender, before |-> users,
                           after |-> users, wrote |-> FALSE,
                           response |-> "not enabled"])
                    /\ UNCHANGED mem_autoinvite_users
               ELSE /\ mem_autoinvite_users' =
                          [set |-> TRUE, users |-> list_remove(users, sender)]
                    /\ ai_hist' = Append(ai_hist,
                          [enable |-> FALSE, sender |-> sender, before |-> users,
                           after |-> list_remove(users, sender), wrote |-> TRUE,
                           response |-> "disabled"])

-----------------------------------------------------------------------------
(* !createroom (src/picard/commands.py, 97-156)                            *)

MaxInvocations == 2

Invocations == 1..MaxInvocations

\* Mutant: the workspace channel is created before the federation room.
CreateSteps_channel_first ==
    <<"respond", "acquire_lock", "create_slack_channel", "sleep",
      "create_new_matrix_room", "configure_new_matrix_room_pre_bridge", "link_room",
      "configure_new_matrix_room_post_bridge", "set_slack_channel_description",
      "invite_user", "announce_new_room">>

\* The awaited steps of on_create_room_command, in program order.
CreateSteps == <<"respond", "create_new_matrix_room",
                 "configure_new_matrix_room_pre_bridge", "acquire_lock",
                 "create_slack_channel", "sleep", "link_room",
                 "configure_new_matrix_room_post_bridge",
                 "set_slack_channel_description", "invite_user",
                 "announce_new_room">>

StepAfter(step) ==
    LET i == CHOOSE k \in DOMAIN CreateSteps : CreateSteps[k] = step
    IN  IF i = Len(CreateSteps) THEN "done" ELSE CreateSteps[i + 1]

\* The steps inside "async with self._slack_channel_lock".
LockedSteps == {"create_slack_channel", "sleep"}

ParkedCR ==
    /\ cr_pc = [p \in Invocations |-> "idle"]
    /\ cr_lock = 0
    /\ cr_done = [p \in Invocations |-> {}]

InitCR == ParkedCR

\* Mutant: the lock is taken whoever holds it.
lock_is_free_always(lock) == TRUE

\* asyncio.Lock.acquire goes through only when nobody holds the lock.
lock_is_free(lock) == lock = 0

\* The command arrives: 'Creating room please wait...'
CreateRoomCommand(p) ==
    /\ cr_pc[p] = "idle"
    /\ cr_pc' = [cr_pc EXCEPT ![p] = "respond"]
    /\ UNCHANGED <<cr_lock, cr_done>>

\* "async with self._slack_channel_lock": entered when the lock is free.
AcquireLock(p) ==
    /\ cr_pc[p] = "acquire_lock"
    /\ lock_is_free(cr_lock)
    /\ cr_lock' = p
    /\ cr_done' = [cr_done EXCEPT ![p] = @ \cup {"acquire_lock"}]
    /\ cr_pc' = [cr_pc EXCEPT ![p] = StepAfter("acquire_lock")]

\* One awaited call returns.  Leaving the "async with" block, after the sleep,
\* releases the lock; the topic step is skipped when no topic was given.
CreateRoomStep(p) ==
    /\ cr_pc[p] \in Range(CreateSteps) \ {"acquire_lock"}
    /\ \E has_topic \in BOOLEAN :
         /\ cr_pc[p] = "set_slack_channel_description" => has_topic
         /\ LET next == StepAfter(cr_pc[p])
            IN  cr_pc' = [cr_pc EXCEPT ![p] =
                            IF next = "set_slack_channel_description" /\ ~has_topic
                              THEN StepAfter(next) ELSE next]
    /\ cr_done' = [cr_done EXCEPT ![p] = @ \cup {cr_pc[p]}]
    /\ cr_lock' = IF cr_pc[p] = "sleep" /\ cr_lock = p THEN 0 ELSE cr_lock

\* One awaited call raises: the invocation ends there; an exception inside the
\* "async with" block releases the lock on the way out.
CreateRoomFail(p) ==
    /\ cr_pc[p] \in Range(CreateSteps) \ {"acquire_lock", "sleep"}
    /\ cr_pc' = [cr_pc EXCEPT ![p] = "failed"]
    /\ cr_lock' = IF cr_pc[p] \in LockedSteps /\ cr_lock = p THEN 0 ELSE cr_lock
    /\ UNCHANGED cr_done

-----------------------------------------------------------------------------
(* Communities (src/picard.py, 153-181)                                    *)

mxid == "@picard:ex"

community_id == "+community:ex"

NoGroup == [capable |-> FALSE, exists |-> FALSE, profile |-> "", users |-> EmptyMap,
            rooms |-> {}]

\* admin_of_community: the outcomes [ok, ret, group, raised]; ret is "None" for
\* None.  A call fails; or the group is missing (404) and is created; or its
\* profile is empty (falsy) and the check is skipped; or the connector user is
\* not among its users (myself[0] is an IndexError), not privileged, or admin.
admin_of_community(group) ==
    IF ~group.capable THEN {[ok |-> TRUE, ret |-> "None", group |-> group, raised |-> 0]}
    ELSE {[ok |-> FALSE, ret |-> "None", group |-> group, raised |-> 1],
          IF ~group.exists
            THEN [ok |-> TRUE, ret |-> community_id,
                  group |-> [group EXCEPT !.exists = TRUE, !.profile = "full",
                                          !.users = MapSet(@, mxid, TRUE)],
                  raised |-> 0]
          ELSE IF group.profile = "empty"
            THEN [ok |-> TRUE, ret |-> community_id, group |-> group, raised |-> 0]
          ELSE IF mxid \notin DOMAIN group.users
            THEN [ok |-> FALSE, ret |-> "None", group |-> group, raised |-> 0]
          ELSE IF ~group.users[mxid]
            THEN [ok |-> TRUE, ret |-> "None", group |-> group, raised |-> 0]
          ELSE [ok |-> TRUE, ret |-> community_id, group |-> group, raised |-> 0]}

\* The communities admin_of_community can meet: the client speaks groups or
\* not; the group is missing, or is there with a profile and its users, each
\* privileged or not.
CommunityGroups ==
    { [NoGroup EXCEPT !.capable = c] : c \in BOOLEAN }
    \cup { [capable |-> c, exists |-> TRUE, profile |-> pr, users |-> u, rooms |-> {}] :
              c \in BOOLEAN, pr \in {"full", "empty"},
              u \in MapsOver({mxid, "@bob:ex"}, BOOLEAN) }

ParkedAC ==
    /\ ac_group = NoGroup
    /\ ac_hist = <<>>

InitAC ==
    /\ ac_group \in CommunityGroups
    /\ ac_hist = <<>>

AdminOfCommunity ==
    /\ Len(ac_hist) < MaxRuns
    /\ \E o \in admin_of_community(ac_group) :
         /\ ac_group' = o.group
         /\ ac_hist' = Append(ac_hist, [ok |-> o.ok, ret |-> o.ret, raised |-> o.raised,
                                        before |-> ac_group])

-----------------------------------------------------------------------------
(* The sweep (src/picard.py, 360-486)                                      *)

MaxFaults == 1

MaxSweeps == 2

Sweeps == {"timer", "manual"}

as_userid == "@slackbridge:ex"

\* A config with every optional key left out (make_public given as false).
NoConfig ==
    [make_public |-> FALSE, room_avatar_url |-> "None",
     related_groups |-> <<>>, users_as_admin |-> <<>>,
     room_pl_0 |-> FALSE, users_to_invite |-> <<>>,
     invite_communtiy_to_rooms |-> FALSE]

SweepConfigs ==
    { [make_public |-> TRUE, room_avatar_url |-> "mxc://ex/avatar",
       related_groups |-> <<"+a:ex">>, users_as_admin |-> <<"@alice:ex">>,
       room_pl_0 |-> TRUE, users_to_invite |-> <<"@bob:ex">>,
       invite_communtiy_to_rooms |-> TRUE],
      [make_public |-> TRUE, room_avatar_url |-> "https://ex/avatar.png",
       related_groups |-> <<>>, users_as_admin |-> <<>>,
       room_pl_0 |-> FALSE, users_to_invite |-> <<>>,
       invite_communtiy_to_rooms |-> FALSE],
      NoConfig }

\* The channel lists the sweeps run on.
SweepChannelLists ==
    { <<>>,
      <<[id |-> "C1", name |-> "general", is_archived |-> FALSE, topic |-> "talk"]>>,
      <<[id |-> "C1", name |-> "general", is_archived |-> FALSE, topic |-> "talk"],
        [id |-> "C2", name |-> "random", is_archived |-> FALSE, topic |-> ""]>>,
      <<[id |-> "C1", name |-> "general", is_archived |-> TRUE, topic |-> ""],
        [id |-> "C2", name |-> "random", is_archived |-> FALSE, topic |-> "talk"]>> }

SweepGroups ==
    { NoGroup,
      [NoGroup EXCEPT !.capable = TRUE],
      [capable |-> TRUE, exists |-> TRUE, profile |-> "full",
       users |-> MapSet(MapSet(EmptyMap, mxid, TRUE), "@bob:ex", FALSE), rooms |-> {}],
      [capable |-> TRUE, exists |-> TRUE, profile |-> "full",
       users |-> MapSet(EmptyMap, mxid, FALSE), rooms |-> {}] }

\* The per-room options the operators may have stored with !skip.
SweepOptions ==
    { [r \in CommandRooms |-> EmptyMap],
      [r \in CommandRooms |->
          IF r = RoomIdOf(room_alias("general"))
            THEN MapSet(EmptyMap, SkipKey("avatar"), TRUE) ELSE EmptyMap],
      [r \in CommandRooms |->
          MapSet(MapSet(EmptyMap, SkipKey("name"), TRUE), SkipKey("description"), TRUE)] }

DefaultPowerLevels ==
    [keys |-> {"users", "events_default"}, users |-> MapSet(EmptyMap, mxid, AdminLevel),
     notifications |-> EmptyMap, events_default |-> 0]

IdleSweep ==
    [pc |-> "idle", seen_channels |-> EmptyMap, new_channels |-> EmptyMap, todo |-> <<>>,
     channel_id |-> "", room_id |-> "None", community |-> "None",
     rooms_in_community |-> {}, started |-> {}, completed |-> {}, skipped |-> {}]

\* The awaited steps of the loop body, in program order.
ChannelSteps ==
    <<"intent_self_in_room", "set_room_name", "set_room_topic", "set_room_avatar",
      "make_public", "invite_appservice", "configure_room_power_levels",
      "update_related_groups", "link", "users_to_invite", "community", "finished">>

\* The conditions under which the loop body runs a step.
StepApplies(step, l) ==
    CASE step = "set_room_topic" -> l.new_channels[l.channel_id][3] # ""
      [] step = "set_room_avatar" -> sw_config.room_avatar_url # "None"
      [] step = "make_public" -> sw_config.make_public
      [] step = "update_related_groups" -> sw_config.related_groups # <<>>
      [] step = "users_to_invite" -> sw_config.users_to_invite # <<>>
      [] step = "community" -> l.community # "None"
      [] OTHER -> TRUE

NextStep(step, l) ==
    LET i == CHOOSE k \in DOMAIN ChannelSteps : ChannelSteps[k] = step
        later == {k \in DOMAIN ChannelSteps : k > i /\ StepApplies(ChannelSteps[k], l)}
    IN  ChannelSteps[CHOOSE k \in later : \A m \in later : k <= m]

\* dict.update
MapUpdate(a, b) ==
    [k \in DOMAIN a \cup DOMAIN b |-> IF k \in DOMAIN b THEN b[k] ELSE a[k]]

\* The keys of new_channels in insertion order: the order of the channel list.
RECURSIVE KeysInOrder(_, _)
KeysInOrder(channels, m) ==
    IF channels = <<>> THEN <<>>
    ELSE IF Head(channels).id \in DOMAIN m
      THEN <<Head(channels).id>> \o KeysInOrder(Tail(channels), m)
      ELSE KeysInOrder(Tail(channels), m)

MembersOf(room_id) == {u \in MatrixUsers \cup {as_userid} : <<room_id, u>> \in mx_members}

WithMembers(room_id, users) ==
    {m \in mx_members : m[1] # room_id} \cup {<<room_id, u>> : u \in users}

Running == {s \in Sweeps : sw[s].pc # "idle"}

\* What a sweep leaves behind when it ends.
SweepRecord(s, aborted, wrote, calls, ledger) ==
    [sweep |-> s, discovered |-> DOMAIN sw[s].new_channels, started |-> sw[s].started,
     completed |-> sw[s].completed, skipped |-> sw[s].skipped, calls |-> calls,
     aborted |-> aborted, wrote |-> wrote, ledger |-> ledger]

\* One awaited step of sweep s returns (ok) or raises, after `raised`
\* failures of the platform (of which MaxFaults happen): on a raise the
\* exception leaves mirror_slack_channels, which ends there.
SweepMove(s, ok, raised, calls, next) ==
    /\ sw_faults + raised <= MaxFaults
    /\ sw_faults' = sw_faults + raised
    /\ sw_calls' = [sw_calls EXCEPT ![s] = IF ok THEN @ \cup calls ELSE {}]
    /\ sw' = [sw EXCEPT ![s] = IF ok THEN next ELSE IdleSweep]
    /\ sw_hist' = IF ok THEN sw_hist
                  ELSE Append(sw_hist, SweepRecord(s, sw[s].pc, FALSE,
                                                   sw_calls[s] \cup calls,
                                                   mem_seen_channels))

Raised(ok) == IF ok THEN 0 ELSE 1

Here(channel_calls, l) == {<<l.channel_id, c>> : c \in channel_calls}

ParkedSW ==
    /\ sw = [s \in Sweeps |-> IdleSweep]
    /\ sw_active = {}
    /\ sw_config = NoConfig
    /\ sw_calls = [s \in Sweeps |-> {}]
    /\ sw_hist = <<>>
    /\ sw_faults = 0
    /\ mx_members = {}
    /\ mx_power_levels = [r \in {RoomIdOf(a) : a \in Aliases} |-> DefaultPowerLevels]
    /\ mx_related_groups = [r \in {RoomIdOf(a) : a \in Aliases} |->
                              [set |-> FALSE, groups |-> <<>>]]
    /\ mx_group = NoGroup

\* The state a sweep starts from: nothing mirrored yet, or the first room
\* already there (created by hand, the connector user not in it).
InitSW ==
    /\ sw = [s \in Sweeps |-> IdleSweep]
    /\ sw_active = {"timer"}
    /\ sw_config \in SweepConfigs
    /\ sw_calls = [s \in Sweeps |-> {}]
    /\ sw_hist = <<>>
    /\ sw_faults = 0
    /\ mx_members = {}
    /\ mx_power_levels = [r \in {RoomIdOf(a) : a \in Aliases} |-> DefaultPowerLevels]
    /\ mx_related_groups = [r \in {RoomIdOf(a) : a \in Aliases} |->
                              [set |-> FALSE, groups |-> <<>>]]
    /\ mx_group \in SweepGroups
    /\ slack_channels \in SweepChannelLists
    /\ mem_seen_channels = EmptyMap
    /\ mem_options \in SweepOptions
    /\ mx_exists \in {{}, {room_alias("general")}}
    /\ mx_joined = {}
    /\ dc_results = <<>>
    /\ sr_room = "None"
    /\ sr_hist = <<>>
    /\ sk_cmd = NoCommand
    /\ sk_hist = <<>>

\* What no step of a sweep changes.
swFixed == <<plVars, rgVars, crVars, urVars, acVars, aiVars, dc_results, sr_room, sr_hist, sk_cmd, sk_hist,
             slack_channels, mem_options, sw_active, sw_config>>

mxRooms == <<mx_exists, mx_joined, mx_members, mx_power_levels, mx_related_groups>>

\* mirror_slack_channels up to its second await: seen_channels is read from
\* memory and the new channels are worked out.
SweepStart(s) ==
    /\ s \in sw_active
    /\ sw[s].pc = "idle"
    /\ Len(sw_hist) + Cardinality(Running) < MaxSweeps
    /\ LET seen_channels == mem_seen_channels
           new_channels == get_new_channels(slack_channels, seen_channels, 1, EmptyMap)
       IN  sw' = [sw EXCEPT ![s] =
                    [IdleSweep EXCEPT !.pc = "admin_of_community",
                                      !.seen_channels = seen_channels,
                                      !.new_channels = new_channels,
                                      !.todo = KeysInOrder(slack_channels, new_channels)]]
    /\ sw_calls' = [sw_calls EXCEPT ![s] = {}]
    /\ UNCHANGED <<sw_hist, sw_faults, mem_seen_channels, mxRooms, mx_group, swFixed>>

\* community = await admin_of_community(...), then the rooms of the community.
SweepCommunity(s) ==
    /\ sw[s].pc = "admin_of_community"
    /\ \E o \in admin_of_community(mx_group), rooms_ok \in BOOLEAN :
         /\ (~o.ok \/ o.ret = "None") => rooms_ok
         /\ mx_group' = o.group
         /\ SweepMove(s, o.ok /\ rooms_ok, o.raised + Raised(rooms_ok), {},
                      [sw[s] EXCEPT !.pc = "loop", !.community = o.ret,
                                    !.rooms_in_community = o.group.rooms])
    /\ UNCHANGED <<mem_seen_channels, mxRooms, swFixed>>

\* The head of the loop: the next channel, join_bot_to_channel (whose member
\* listing can raise), or the end of the loop.
SweepNextChannel(s) ==
    /\ sw[s].pc = "loop"
    /\ IF sw[s].todo = <<>>
         THEN SweepMove(s, TRUE, 0, {}, [sw[s] EXCEPT !.pc = "commit"])
         ELSE \E ok \in BOOLEAN :
                SweepMove(s, ok, Raised(ok), {},
                          [sw[s] EXCEPT !.pc = "intent_self_in_room",
                                        !.channel_id = Head(sw[s].todo),
                                        !.todo = Tail(sw[s].todo),
                                        !.started = @ \cup {Head(sw[s].todo)}])
    /\ UNCHANGED <<mem_seen_channels, mxRooms, mx_group, swFixed>>

\* room_id = await intent_self_in_room(opsdroid, room_alias)
SweepSelfInRoom(s) ==
    /\ sw[s].pc = "intent_self_in_room"
    /\ \E o \in intent_self_in_room(mx_exists, mx_joined,
                                    sw[s].new_channels[sw[s].channel_id][2]) :
         /\ mx_exists' = o.exists
         /\ mx_joined' = o.joined
         /\ SweepMove(s, o.ok, o.raised, Here(o.calls \ {"get_room_id"}, sw[s]),
                      [sw[s] EXCEPT !.room_id = o.ret,
                                    !.pc = NextStep("intent_self_in_room", sw[s])])
    /\ UNCHANGED <<mem_seen_channels, mx_members, mx_power_levels, mx_related_groups,
                   mx_group, swFixed>>

\* set_room_name, set_room_topic: the call is issued whatever "picard.options"
\* holds for the room.
SweepSetRoomName(s) ==
    /\ sw[s].pc = "set_room_name"
    /\ \E ok \in BOOLEAN :
         SweepMove(s, ok, Raised(ok), Here({"set_room_name"}, sw[s]),
                   [sw[s] EXCEPT !.pc = NextStep("set_room_name", sw[s])])
    /\ UNCHANGED <<mem_seen_channels, mxRooms, mx_group, swFixed>>

SweepSetRoomTopic(s) ==
    /\ sw[s].pc = "set_room_topic"
    /\ \E ok \in BOOLEAN :
         SweepMove(s, ok, Raised(ok), Here({"set_room_topic"}, sw[s]),
                   [sw[s] EXCEPT !.pc = NextStep("set_room_topic", sw[s])])
    /\ UNCHANGED <<mem_seen_channels, mxRooms, mx_group, swFixed>>

\* set_room_avatar: a URL that is not mxc is handed to upload_image_to_matrix
\* with one argument of its two, a TypeError; else the state event is sent.
SweepSetRoomAvatar(s) ==
    /\ sw[s].pc = "set_room_avatar"
    /\ \E ok \in BOOLEAN :
         /\ ~StartsWith(sw_config.room_avatar_url, "mxc") => ~ok
         /\ SweepMove(s, ok,
                      IF StartsWith(sw_config.room_avatar_url, "mxc")
                        THEN Raised(ok) ELSE 0,
                      IF StartsWith(sw_config.room_avatar_url, "mxc")
                        THEN Here({"set_room_avatar"}, sw[s]) ELSE {},
                      [sw[s] EXCEPT !.pc = NextStep("set_room_avatar", sw[s])])
    /\ UNCHANGED <<mem_seen_channels, mxRooms, mx_group, swFixed>>

\* Mutant: the two state events are sent outside any try/except.
SweepMakePublic_uncaught(s) ==
    /\ sw[s].pc = "make_public"
    /\ \E ok \in BOOLEAN :
         SweepMove(s, ok, Raised(ok),
                   Here(IF ok THEN {"m.room.join_rules", "m.room.history_visibility"}
                              ELSE {"m.room.join_rules", "error: not public"}, sw[s]),
                   [sw[s] EXCEPT !.pc = NextStep("make_public", sw[s])])
    /\ UNCHANGED <<mem_seen_channels, mxRooms, mx_group, swFixed>>

\* The two state events of make_public, inside try/except: a raise is
\* answered with "ERROR: Could not make ... publically joinable." and the
\* channel goes on.
SweepMakePublic(s) ==
    /\ sw[s].pc = "make_public"
    /\ \E raised \in {"no", "m.room.join_rules", "m.room.history_visibility"} :
         /\ raised # "no" => sw_faults < MaxFaults
         /\ sw_faults' = IF raised = "no" THEN sw_faults ELSE sw_faults + 1
         /\ sw_calls' = [sw_calls EXCEPT ![s] = @ \cup Here(
                CASE raised = "no" -> {"m.room.join_rules", "m.room.history_visibility"}
                  [] raised = "m.room.join_rules" ->
                       {"m.room.join_rules", "error: not public"}
                  [] OTHER -> {"m.room.join_rules", "m.room.history_visibility",
                               "error: not public"}, sw[s])]
    /\ sw' = [sw EXCEPT ![s].pc = NextStep("make_public", sw[s])]
    /\ UNCHANGED <<sw_hist, mem_seen_channels, mxRooms, mx_group, swFixed>>

\* Mutant: after the error the channel goes on with the steps that follow.
SweepInviteAppservice_goes_on(s) ==
    /\ sw[s].pc = "invite_appservice"
    /\ \E o \in intent_user_in_room(MembersOf(sw[s].room_id), as_userid) :
         /\ sw_faults + o.raised <= MaxFaults
         /\ sw_faults' = sw_faults + o.raised
         /\ mx_members' = WithMembers(sw[s].room_id, o.members)
         /\ sw' = [sw EXCEPT ![s].pc = NextStep("invite_appservice", sw[s]),
                              ![s].skipped = IF o.ret = "None"
                                               THEN @ \cup {sw[s].channel_id} ELSE @]
         /\ sw_calls' = [sw_calls EXCEPT ![s] = @ \cup
                Here(IF o.ret = "None"
                       THEN {"invite_appservice", "error: skipping channel"}
                       ELSE {"invite_appservice"}, sw[s])]
    /\ UNCHANGED <<sw_hist, mem_seen_channels, mx_exists, mx_joined, mx_power_levels,
                   mx_related_groups, mx_group, swFixed>>

\* room_id = await intent_user_in_room(opsdroid, config['as_userid'], room_id);
\* on None the error is reported and the loop continues with the next channel.
SweepInviteAppservice(s) ==
    /\ sw[s].pc = "invite_appservice"
    /\ \E o \in intent_user_in_room(MembersOf(sw[s].room_id), as_userid) :
         /\ sw_faults + o.raised <= MaxFaults
         /\ sw_faults' = sw_faults + o.raised
         /\ mx_members' = WithMembers(sw[s].room_id, o.members)
         /\ IF o.ret = "None"
              THEN /\ sw' = [sw EXCEPT ![s].pc = "loop", ![s].room_id = "None",
                                       ![s].skipped = @ \cup {sw[s].channel_id}]
                   /\ sw_calls' = [sw_calls EXCEPT ![s] = @ \cup
                          Here({"invite_appservice", "error: skipping channel"}, sw[s])]
              ELSE /\ sw' = [sw EXCEPT ![s].pc = NextStep("invite_appservice", sw[s])]
                   /\ sw_calls' = [sw_calls EXCEPT ![s] = @ \cup
                          Here({"invite_appservice"}, sw[s])]
    /\ UNCHANGED <<sw_hist, mem_seen_channels, mx_exists, mx_joined, mx_power_levels,
                   mx_related_groups, mx_group, swFixed>>

\* await configure_room_power_levels(opsdroid, config, room_id)
SweepPowerLevels(s) ==
    /\ sw[s].pc = "configure_room_power_levels"
    /\ \E o \in configure_room_power_levels(
                    mx_power_levels[sw[s].room_id],
                    [users_as_admin |-> sw_config.users_as_admin,
                     room_pl_0 |-> sw_config.room_pl_0],
                    MembersOf(sw[s].room_id)) :
         /\ mx_power_levels' = [mx_power_levels EXCEPT ![sw[s].room_id] = o.doc]
         /\ mx_members' = WithMembers(sw[s].room_id, o.members)
         /\ SweepMove(s, o.ok, o.raised,
                      IF o.wrote THEN Here({"set_power_levels"}, sw[s]) ELSE {},
                      [sw[s] EXCEPT !.pc = NextStep("configure_room_power_levels", sw[s])])
    /\ UNCHANGED <<mem_seen_channels, mx_exists, mx_joined, mx_related_groups, mx_group,
                   swFixed>>

\* await update_related_groups(opsdroid, room_id, related_groups)
SweepRelatedGroups(s) ==
    /\ sw[s].pc = "update_related_groups"
    /\ \E o \in update_related_groups(mx_related_groups[sw[s].room_id],
                                      sw_config.related_groups) :
         /\ mx_related_groups' = [mx_related_groups EXCEPT ![sw[s].room_id] = o.stored]
         /\ SweepMove(s, o.ok, o.raised, Here({"set_related_groups"}, sw[s]),
                      [sw[s] EXCEPT !.pc = NextStep("update_related_groups", sw[s])])
    /\ UNCHANGED <<mem_seen_channels, mx_exists, mx_joined, mx_members, mx_power_levels,
                   mx_group, swFixed>>

\* The link command sent to the appservice admin room.
SweepLink(s) ==
    /\ sw[s].pc = "link"
    /\ SweepMove(s, TRUE, 0, Here({"link"}, sw[s]),
                 [sw[s] EXCEPT !.pc = NextStep("link", sw[s])])
    /\ UNCHANGED <<mem_seen_channels, mxRooms, mx_group, swFixed>>

\* The invites of a list of users, a failed invite being swallowed: the
\* outcomes [members, raised].
RECURSIVE invite_all(_, _)
invite_all(st, users) ==
    IF users = <<>> THEN {st}
    ELSE UNION { invite_all([members |-> o.members, raised |-> st.raised + o.raised],
                            Tail(users)) :
                   o \in intent_user_in_room(st.members, Head(users)) }

\* for user in config["users_to_invite"]: intent_user_in_room(...)
SweepInviteUsers(s) ==
    /\ sw[s].pc = "users_to_invite"
    /\ \E o \in invite_all([members |-> MembersOf(sw[s].room_id), raised |-> 0],
                           sw_config.users_to_invite) :
         /\ mx_members' = WithMembers(sw[s].room_id, o.members)
         /\ SweepMove(s, TRUE, o.raised, Here({"invite_user"}, sw[s]),
                      [sw[s] EXCEPT !.pc = NextStep("users_to_invite", sw[s])])
    /\ UNCHANGED <<mem_seen_channels, mx_exists, mx_joined, mx_power_levels,
                   mx_related_groups, mx_group, swFixed>>

\* The users of the community that user_in_state does not find in the room.
CommunityUsersToInvite(room_id) ==
    IF sw_config.invite_communtiy_to_rooms
      THEN {u \in DOMAIN mx_group.users : u \in MatrixUsers /\ u \notin MembersOf(room_id)}
      ELSE {}

\* add_room_to_group (a raise is logged and swallowed), get_users_in_group, and
\* with invite_communtiy_to_rooms the invites of the community's users.
SweepCommunityRoom(s) ==
    /\ sw[s].pc = "community"
    /\ \E added \in BOOLEAN, ok \in BOOLEAN,
          invited \in SUBSET CommunityUsersToInvite(sw[s].room_id) :
         /\ ~ok => invited = {}
         /\ sw[s].room_id \in sw[s].rooms_in_community => added
         /\ mx_group' = IF added /\ sw[s].room_id \notin sw[s].rooms_in_community
                          THEN [mx_group EXCEPT !.rooms = @ \cup {sw[s].room_id}]
                          ELSE mx_group
         /\ mx_members' = mx_members \cup {<<sw[s].room_id, u>> : u \in invited}
         /\ SweepMove(s, ok,
                      Raised(added) + Raised(ok)
                        + (IF ok THEN Cardinality(CommunityUsersToInvite(sw[s].room_id)
                                                  \ invited)
                                 ELSE 0),
                      IF sw[s].room_id \notin sw[s].rooms_in_community
                        THEN Here({"add_room_to_group"}, sw[s]) ELSE {},
                      [sw[s] EXCEPT !.pc = NextStep("community", sw[s])])
    /\ UNCHANGED <<mem_seen_channels, mx_exists, mx_joined, mx_power_levels,
                   mx_related_groups, swFixed>>

\* await message.respond(f"Finished Adding room {room_alias}")
SweepFinished(s) ==
    /\ sw[s].pc = "finished"
    /\ SweepMove(s, TRUE, 0, Here({"finished"}, sw[s]),
                 [sw[s] EXCEPT !.pc = "loop", !.completed = @ \cup {sw[s].channel_id}])
    /\ UNCHANGED <<mem_seen_channels, mxRooms, mx_group, swFixed>>

\* seen_channels.update(new_channels): every discovered channel is recorded.
ledger_update(l) == MapUpdate(l.seen_channels, l.new_channels)

\* After the loop: if new_channels, the ledger is updated and written.
SweepCommit(s) ==
    /\ sw[s].pc = "commit"
    /\ \E ok \in BOOLEAN :
         LET write == sw[s].new_channels # EmptyMap
             ledger == IF write /\ ok THEN ledger_update(sw[s]) ELSE mem_seen_channels
         IN  /\ ~write => ok
             /\ ~ok => sw_faults < MaxFaults
             /\ sw_faults' = IF ok THEN sw_faults ELSE sw_faults + 1
             /\ mem_seen_channels' = ledger
             /\ sw_hist' = Append(sw_hist,
                   SweepRecord(s, IF ok THEN "no" ELSE "commit", write /\ ok,
                               sw_calls[s], ledger))
    /\ sw' = [sw EXCEPT ![s] = IdleSweep]
    /\ sw_calls' = [sw_calls EXCEPT ![s] = {}]
    /\ UNCHANGED <<mxRooms, mx_group, swFixed>>

\* Two triggers of the sweep, the crontab and "!updatechannels", on a
\* workspace whose channel list grows while they run.
InitLG ==
    /\ sw = [s \in Sweeps |-> IdleSweep]
    /\ sw_active = Sweeps
    /\ sw_config = NoConfig
    /\ sw_calls = [s \in Sweeps |-> {}]
    /\ sw_hist = <<>>
    /\ sw_faults = 0
    /\ mx_members = {}
    /\ mx_power_levels = [r \in {RoomIdOf(a) : a \in Aliases} |-> DefaultPowerLevels]
    /\ mx_related_groups = [r \in {RoomIdOf(a) : a \in Aliases} |->
                              [set |-> FALSE, groups |-> <<>>]]
    /\ mx_group = NoGroup
    /\ slack_channels \in
          { <<>>,
            <<[id |-> "C1", name |-> "general", is_archived |-> FALSE, topic |-> ""]>> }
    /\ mem_seen_channels = EmptyMap
    /\ mem_options = [r \in CommandRooms |-> EmptyMap]
    /\ mx_exists = {}
    /\ mx_joined = {}
    /\ dc_results = <<>>
    /\ sr_room = "None"
    /\ sr_hist = <<>>
    /\ sk_cmd = NoCommand
    /\ sk_hist = <<>>

\* A channel is created in the workspace: slack.channels.list() answers one
\* channel more from now on.
WorkspaceChannelCreated ==
    /\ Len(slack_channels) < MaxChannels
    /\ \E id \in ChannelIds \ {slack_channels[i].id : i \in DOMAIN slack_channels} :
         slack_channels' = Append(slack_channels,
                                  [id |-> id, name |-> ChannelName[id],
                                   is_archived |-> FALSE, topic |-> ""])
    /\ UNCHANGED <<sw, sw_calls, sw_hist, sw_faults, mem_seen_channels, mxRooms, mx_group,
                   plVars, rgVars, crVars, urVars, acVars, aiVars, dc_results, sr_room, sr_hist,
                   sk_cmd, sk_hist, mem_options, sw_active, sw_config>>

-----------------------------------------------------------------------------
(* Specifications                                                          *)

OthersPL == <<aiVars, acVars, urVars, rgVars, dcVars, srVars, skVars, crVars, swVars>>

NextPL ==
    \/ (ConfigureRoomPowerLevels) /\ UNCHANGED OthersPL

InitSpecPL == InitPL /\ ParkedRG /\ ParkedDC /\ ParkedSR /\ ParkedSK /\ ParkedCR /\ ParkedSW /\ ParkedUR /\ ParkedAC /\ ParkedAI

SpecPL == InitSpecPL /\ [][NextPL]_vars

OthersRG == <<aiVars, acVars, urVars, plVars, dcVars, srVars, skVars, crVars, swVars>>

NextRG ==
    \/ (UpdateRelatedGroups) /\ UNCHANGED OthersRG
    \/ (GetRelatedGroups) /\ UNCHANGED OthersRG

InitSpecRG == InitRG /\ ParkedPL /\ ParkedDC /\ ParkedSR /\ ParkedSK /\ ParkedCR /\ ParkedSW /\ ParkedUR /\ ParkedAC /\ ParkedAI

SpecRG == InitSpecRG /\ [][NextRG]_vars

OthersDC == <<aiVars, acVars, urVars, plVars, rgVars, srVars, skVars, crVars, swVars>>

NextDC ==
    \/ (GetNewChannels) /\ UNCHANGED OthersDC

InitSpecDC == InitDC /\ ParkedPL /\ ParkedRG /\ ParkedSR /\ ParkedSK /\ ParkedCR /\ ParkedSW /\ ParkedUR /\ ParkedAC /\ ParkedAI

SpecDC == InitSpecDC /\ [][NextDC]_vars

OthersSR == <<aiVars, acVars, urVars, plVars, rgVars, dcVars, skVars, crVars, swVars>>

NextSR ==
    \/ (IntentSelfInRoom) /\ UNCHANGED OthersSR

InitSpecSR == InitSR /\ ParkedPL /\ ParkedRG /\ ParkedDC /\ ParkedSK /\ ParkedCR /\ ParkedSW /\ ParkedUR /\ ParkedAC /\ ParkedAI

SpecSR == InitSpecSR /\ [][NextSR]_vars

OthersSK == <<aiVars, acVars, urVars, plVars, rgVars, dcVars, srVars, crVars, swVars>>

NextSK ==
    \/ (RoomSkipBegin) /\ UNCHANGED OthersSK
    \/ (RoomSkipGet) /\ UNCHANGED OthersSK
    \/ (RoomSkipPut) /\ UNCHANGED OthersSK

InitSpecSK == InitSK /\ ParkedPL /\ ParkedRG /\ ParkedDC /\ ParkedSR /\ ParkedCR /\ ParkedSW /\ ParkedUR /\ ParkedAC /\ ParkedAI

SpecSK == InitSpecSK /\ [][NextSK]_vars

OthersCR == <<aiVars, acVars, urVars, plVars, rgVars, dcVars, srVars, skVars, swVars>>

NextCR ==
    \/ (\E p \in Invocations : CreateRoomCommand(p)) /\ UNCHANGED OthersCR
    \/ (\E p \in Invocations : AcquireLock(p)) /\ UNCHANGED OthersCR
    \/ (\E p \in Invocations : CreateRoomStep(p)) /\ UNCHANGED OthersCR
    \/ (\E p \in Invocations : CreateRoomFail(p)) /\ UNCHANGED OthersCR

InitSpecCR == InitCR /\ ParkedPL /\ ParkedRG /\ ParkedDC /\ ParkedSR /\ ParkedSK /\ ParkedSW /\ ParkedUR /\ ParkedAC /\ ParkedAI

SpecCR == InitSpecCR /\ [][NextCR]_vars

OthersUR == <<aiVars, acVars, plVars, rgVars, dcVars, srVars, skVars, crVars, swVars>>

NextUR ==
    \/ (IntentUserInRoom) /\ UNCHANGED OthersUR

InitSpecUR ==
    InitUR /\ ParkedPL /\ ParkedRG /\ ParkedDC /\ ParkedSR /\ ParkedSK /\ ParkedCR
           /\ ParkedSW /\ ParkedAC /\ ParkedAI

SpecUR == InitSpecUR /\ [][NextUR]_vars

OthersAC == <<aiVars, plVars, rgVars, dcVars, srVars, skVars, crVars, swVars, urVars>>

NextAC ==
    \/ (AdminOfCommunity) /\ UNCHANGED OthersAC

InitSpecAC ==
    InitAC /\ ParkedPL /\ ParkedRG /\ ParkedDC /\ ParkedSR /\ ParkedSK /\ ParkedCR
           /\ ParkedSW /\ ParkedUR /\ ParkedAI

SpecAC == InitSpecAC /\ [][NextAC]_vars

OthersAI == <<plVars, rgVars, dcVars, srVars, skVars, crVars, swVars, urVars, acVars>>

NextAI ==
    \/ (OnAutoInvite) /\ UNCHANGED OthersAI
    \/ (OnDisableAutoInvite) /\ UNCHANGED OthersAI

InitSpecAI ==
    InitAI /\ ParkedPL /\ ParkedRG /\ ParkedDC /\ ParkedSR /\ ParkedSK /\ ParkedCR
           /\ ParkedSW /\ ParkedUR /\ ParkedAC

SpecAI == InitSpecAI /\ [][NextAI]_vars

NextSW ==
    \/ \E s \in Sweeps : SweepStart(s)
    \/ \E s \in Sweeps : SweepCommunity(s)
    \/ \E s \in Sweeps : SweepNextChannel(s)
    \/ \E s \in Sweeps : SweepSelfInRoom(s)
    \/ \E s \in Sweeps : SweepSetRoomName(s)
    \/ \E s \in Sweeps : SweepSetRoomTopic(s)
    \/ \E s \in Sweeps : SweepSetRoomAvatar(s)
    \/ \E s \in Sweeps : SweepMakePublic(s)
    \/ \E s \in Sweeps : SweepInviteAppservice(s)
    \/ \E s \in Sweeps : SweepPowerLevels(s)
    \/ \E s \in Sweeps : SweepRelatedGroups(s)
    \/ \E s \in Sweeps : SweepLink(s)
    \/ \E s \in Sweeps : SweepInviteUsers(s)
    \/ \E s \in Sweeps : SweepCommunityRoom(s)
    \/ \E s \in Sweeps : SweepFinished(s)
    \/ \E s \in Sweeps : SweepCommit(s)

InitSpecSW == InitSW /\ ParkedPL /\ ParkedRG /\ ParkedCR /\ ParkedUR /\ ParkedAC /\ ParkedAI

SpecSW == InitSpecSW /\ [][NextSW]_vars

NextLG ==
    \/ WorkspaceChannelCreated
    \/ \E s \in Sweeps : SweepStart(s)
    \/ \E s \in Sweeps : SweepCommunity(s)
    \/ \E s \in Sweeps : SweepNextChannel(s)
    \/ \E s \in Sweeps : SweepSelfInRoom(s)
    \/ \E s \in Sweeps : SweepSetRoomName(s)
    \/ \E s \in Sweeps : SweepInviteAppservice(s)
    \/ \E s \in Sweeps : SweepPowerLevels(s)
    \/ \E s \in Sweeps : SweepLink(s)
    \/ \E s \in Sweeps : SweepFinished(s)
    \/ \E s \in Sweeps : SweepCommit(s)

InitSpecLG == InitLG /\ ParkedPL /\ ParkedRG /\ ParkedCR /\ ParkedUR /\ ParkedAC /\ ParkedAI

SpecLG == InitSpecLG /\ [][NextLG]_vars

-----------------------------------------------------------------------------
(* Claims about the power-level merge                                      *)

Admins == {pl_config.users_as_admin[i] : i \in DOMAIN pl_config.users_as_admin}

\* What a run may change between the documents b and a.
OnlyOwnedKeysChanged(b, a) ==
    /\ a.events_default = b.events_default
    /\ b.keys \subseteq a.keys
    /\ a.keys \ b.keys \subseteq {"notifications"}
    /\ DOMAIN a.users \ Admins = DOMAIN b.users \ Admins
    /\ \A u \in DOMAIN b.users \ Admins : a.users[u] = b.users[u]
    /\ DOMAIN a.notifications \ {"room"} = DOMAIN b.notifications \ {"room"}
    /\ \A n \in DOMAIN b.notifications \ {"room"} : a.notifications[n] = b.notifications[n]

\* C8: the power-level merge changes only users[<admin>] and
\* notifications['room']: every other top-level key, users entry and
\* notifications entry has the same value in the document written back, and a
\* run that writes nothing leaves the stored document as it was.
C8_MergeFrame ==
    \A i \in DOMAIN pl_hist :
        IF pl_hist[i].wrote
          THEN OnlyOwnedKeysChanged(pl_hist[i].before, pl_hist[i].after)
          ELSE pl_hist[i].after = pl_hist[i].before

C8_Witness ==
    /\ pl_hist # <<>>
    /\ pl_hist[1].wrote
    /\ pl_hist[1].after # pl_hist[1].before
    /\ pl_config.room_pl_0
    /\ pl_config.users_as_admin # <<>>
    /\ "@eve:ex" \in DOMAIN pl_hist[1].before.users
    /\ "other" \in DOMAIN pl_hist[1].before.notifications

\* C9: a second run of the admin grant with the same admin set writes the same
\* document as the first, and after a grant every listed admin is at level 100.
C9_GrantIdempotent ==
    /\ \A i \in DOMAIN pl_hist :
          pl_hist[i].wrote => \A a \in Admins :
              a \in DOMAIN pl_hist[i].after.users
              /\ pl_hist[i].after.users[a] = AdminLevel
    /\ \A i \in DOMAIN pl_hist :
          (i > 1 /\ pl_hist[i - 1].wrote /\ pl_hist[i].wrote)
              => pl_hist[i].after = pl_hist[i - 1].after

C9_Witness ==
    /\ Len(pl_hist) >= 2
    /\ pl_hist[1].wrote /\ pl_hist[2].wrote
    /\ Len(pl_config.users_as_admin) = 2
    /\ pl_hist[1].after # pl_hist[1].before
    /\ "@alice:ex" \in DOMAIN pl_hist[1].before.users

\* C15: a run of configure_room_power_levels that returns issues exactly one
\* set_power_levels call, whose document carries every admin grant and the
\* notification floor asked for, when users_as_admin is non-empty or room_pl_0
\* is set; with users_as_admin empty and room_pl_0 false no run issues a write.
C15_SingleWrite ==
    \A i \in DOMAIN pl_hist :
        LET h == pl_hist[i]
        IN  /\ h.writes <= 1
            /\ (h.ok /\ (pl_config.users_as_admin # <<>> \/ pl_config.room_pl_0)) =>
                  /\ h.writes = 1
                  /\ h.wrote
                  /\ \A a \in Admins :
                        a \in DOMAIN h.after.users /\ h.after.users[a] = AdminLevel
                  /\ pl_config.room_pl_0 =>
                        /\ "room" \in DOMAIN h.after.notifications
                        /\ h.after.notifications["room"] = 0
            /\ (pl_config.users_as_admin = <<>> /\ ~pl_config.room_pl_0) =>
                  (h.writes = 0 /\ ~h.wrote /\ h.after = h.before)

C15_Witness ==
    /\ Len(pl_hist) = 2
    /\ pl_config.users_as_admin # <<>>
    /\ pl_config.room_pl_0
    /\ pl_hist[1].writes = 1 /\ pl_hist[1].wrote
    /\ pl_hist[1].before.notifications = EmptyMap
    /\ pl_hist[2].writes = 1

-----------------------------------------------------------------------------
(* Claims about the related-groups merge                                   *)

\* C10: update_related_groups writes the union of the room's existing related
\* groups and the configured ones: nothing existing is removed, every
\* configured group is there, nothing else, no duplicate; and as a set the
\* written list is the same with the two inputs swapped.
C10_RelatedGroupsUnion ==
    /\ \A i \in DOMAIN rg_hist :
          rg_hist[i].ok =>
              /\ Range(rg_hist[i].written) = Range(rg_hist[i].before) \cup Range(rg_config)
              /\ NoDuplicates(rg_hist[i].written)
    /\ \A o \in update_related_groups([set |-> TRUE, groups |-> rg_room.groups], rg_config) :
       \A q \in update_related_groups([set |-> TRUE, groups |-> rg_config], rg_room.groups) :
          (o.ok /\ q.ok) => Range(o.written) = Range(q.written)

C10_Witness ==
    /\ rg_hist # <<>>
    /\ rg_hist[1].ok
    /\ rg_hist[1].before = <<"+a:ex", "+b:ex">>
    /\ rg_config = <<"+b:ex", "+c:ex">>
    /\ Range(rg_hist[1].written) = {"+a:ex", "+b:ex", "+c:ex"}

\* C11: get_related_groups on a room that never had related-groups state (the
\* platform answers 404) returns the empty list and raises nothing; on any
\* other error of the platform it raises.
C11_NotFoundIsEmpty ==
    \A i \in DOMAIN rg_reads :
        /\ rg_reads[i].code = 404 => (rg_reads[i].ok /\ rg_reads[i].ret = <<>>)
        /\ rg_reads[i].code \notin {200, 404} => ~rg_reads[i].ok
        /\ (~rg_reads[i].set /\ rg_reads[i].ok) => rg_reads[i].ret = <<>>

C11_Witness ==
    /\ rg_reads # <<>>
    /\ ~rg_reads[1].set
    /\ rg_reads[1].code = 404
    /\ rg_reads[1].ok
    /\ rg_hist = <<>>

-----------------------------------------------------------------------------
(* Claims about discovery                                                  *)

\* C7: the key set of the map get_new_channels returns is exactly the ids of
\* the listed channels that are neither archived nor in the ledger.
C7_DiscoveryKeys ==
    \A r \in DOMAIN dc_results :
        DOMAIN dc_results[r] =
            { slack_channels[i].id : i \in
                { k \in DOMAIN slack_channels :
                    /\ ~slack_channels[k].is_archived
                    /\ slack_channels[k].id \notin DOMAIN mem_seen_channels } }

C7_Witness ==
    /\ dc_results # <<>>
    /\ DOMAIN dc_results[1] # {}
    /\ \E i \in DOMAIN slack_channels : slack_channels[i].is_archived
    /\ \E i \in DOMAIN slack_channels :
          slack_channels[i].id \in DOMAIN mem_seen_channels

\* The alias each channel of the model must get, written out.
ExpectedAlias(id) ==
    CASE id = "C1" -> "#br-general:example.org"
      [] id = "C2" -> "#br-random:example.org"
      [] id = "C3" -> "#br-dev:example.org"

-----------------------------------------------------------------------------
(* Claims about intent_self_in_room                                        *)

\* C5 (as claimed): whenever intent_self_in_room returns, the connector user
\* is a member of the room it returns.
C5_SelfInRoomAfterReturn ==
    \A i \in DOMAIN sr_hist :
        sr_hist[i].ok => sr_hist[i].ret \in mx_joined

\* C20: when the alias did not resolve and create_room fails because the room
\* was created by someone else meanwhile, intent_self_in_room looks the room
\* up by alias, joins it and returns its id; it fails only if the lookup or
\* the join is failed by the platform in turn.
C20_CreateRaceFallsBack ==
    \A i \in DOMAIN sr_hist :
        LET h == sr_hist[i]
        IN  h.create = "raced" =>
              /\ sr_room \notin h.before.exists
              /\ \/ /\ h.ok
                    /\ h.ret = RoomIdOf(sr_room)
                    /\ h.ret \in h.after.joined
                    /\ {"create_room", "join_room"} \subseteq h.calls
                 \/ ~h.ok /\ h.raised >= 2

C20_Witness ==
    /\ sr_hist # <<>>
    /\ sr_hist[1].create = "raced"
    /\ sr_hist[1].ok
    /\ sr_hist[1].ret = RoomIdOf(sr_room)
    /\ sr_hist[1].ret \notin sr_hist[1].before.joined
    /\ sr_hist[1].ret \in mx_joined

-----------------------------------------------------------------------------
(* Claims about intent_user_in_room                                        *)

-----------------------------------------------------------------------------
(* Claims about admin_of_community                                         *)

\* The connector user holds elevated privilege in the community g.
Privileged(g) == mxid \in DOMAIN g.users /\ g.users[mxid]

\* C13 (as claimed): without the group capability admin_of_community returns
\* None; a missing community is created and its id returned; for a community
\* that exists, with every call of the platform answered, the id is returned
\* only when the connector user is privileged in it, and None, not an error,
\* whenever it is not.
C13_AbsentUnlessPrivileged ==
    \A i \in DOMAIN ac_hist :
        LET h == ac_hist[i]
        IN  /\ ~h.before.capable => (h.ok /\ h.ret = "None")
            /\ (h.before.capable /\ ~h.before.exists /\ h.raised = 0)
                  => (h.ok /\ h.ret = community_id)
            /\ (h.before.capable /\ h.before.exists /\ h.raised = 0)
                  => /\ h.ok
                     /\ h.ret = IF Privileged(h.before) THEN community_id ELSE "None"

-----------------------------------------------------------------------------
(* Claims about the commands                                               *)

Created(p) == "create_slack_channel" \in cr_done[p]

Linked(p) == "link_room" \in cr_done[p]

DoneInOrder(p, a, b) == b \in cr_done[p] => a \in cr_done[p]

\* C17: in every !createroom invocation the federation room is created and
\* its pre-link configuration applied before the workspace channel is created
\* and before link_room is called; the post-link configuration and the topic
\* propagation come only after link_room; and once a step has failed, no
\* later step of that invocation is executed.
C17_CreateRoomOrder ==
    /\ [](\A p \in Invocations :
            /\ cr_pc[p] \in {"create_slack_channel", "link_room"} =>
                  {"create_new_matrix_room", "configure_new_matrix_room_pre_bridge"}
                      \subseteq cr_done[p]
            /\ DoneInOrder(p, "create_new_matrix_room",
                           "configure_new_matrix_room_pre_bridge")
            /\ DoneInOrder(p, "configure_new_matrix_room_pre_bridge",
                           "create_slack_channel")
            /\ DoneInOrder(p, "create_slack_channel", "link_room")
            /\ DoneInOrder(p, "link_room", "configure_new_matrix_room_post_bridge")
            /\ DoneInOrder(p, "link_room", "set_slack_channel_description")
            /\ cr_pc[p] = "failed" => "announce_new_room" \notin cr_done[p])
    /\ [][\A p \in Invocations :
            cr_pc[p] = "failed" => (cr_pc'[p] = "failed" /\ cr_done'[p] = cr_done[p])]_vars

C17_Witness ==
    \E p, q \in Invocations :
        /\ cr_pc[p] = "failed"
        /\ "create_slack_channel" \in cr_done[p]
        /\ "link_room" \notin cr_done[p]
        /\ cr_pc[q] = "done"
        /\ "set_slack_channel_description" \in cr_done[q]

\* C22 (as claimed): the stored autoinvite list never holds a user twice; an
\* enable for a listed user and a disable for an unlisted one write nothing;
\* and an enable followed by a disable of the same user leaves the list as it
\* was before the two.
C22_EnableDisableRestores ==
    /\ NoDuplicates(mem_autoinvite_users.users)
    /\ \A i \in DOMAIN ai_hist :
          LET h == ai_hist[i]
          IN  /\ (h.enable /\ h.sender \in Range(h.before)) => (~h.wrote /\ h.after = h.before)
              /\ (~h.enable /\ h.sender \notin Range(h.before))
                    => (~h.wrote /\ h.after = h.before)
              /\ (i > 1 /\ ~h.enable /\ ai_hist[i - 1].enable
                        /\ ai_hist[i - 1].sender = h.sender)
                    => Range(h.after) = Range(ai_hist[i - 1].before)

\* C22 (amended): the stored list never holds a user twice; an enable for a
\* listed user and a disable for an unlisted one write nothing; an enable
\* followed by a disable of the same user gives back the list as it was when
\* the user was not listed before, and the list without the user when the
\* user was listed before (the enable changed nothing, the disable removes).
C22_AutoInviteList ==
    /\ NoDuplicates(mem_autoinvite_users.users)
    /\ \A i \in DOMAIN ai_hist :
          LET h == ai_hist[i]
          IN  /\ NoDuplicates(h.after)
              /\ (h.enable /\ h.sender \in Range(h.before)) => (~h.wrote /\ h.after = h.before)
              /\ (~h.enable /\ h.sender \notin Range(h.before))
                    => (~h.wrote /\ h.after = h.before)
              /\ (h.enable /\ h.sender \notin Range(h.before))
                    => (h.wrote /\ Range(h.after) = Range(h.before) \cup {h.sender})
              /\ (~h.enable /\ h.sender \in Range(h.before))
                    => (h.wrote /\ Range(h.after) = Range(h.before) \ {h.sender})
              /\ (i > 1 /\ ~h.enable /\ ai_hist[i - 1].enable
                        /\ ai_hist[i - 1].sender = h.sender)
                    => IF h.sender \in Range(ai_hist[i - 1].before)
                         THEN Range(h.after) = Range(ai_hist[i - 1].before) \ {h.sender}
                         ELSE h.after = ai_hist[i - 1].before

C22_Witness ==
    /\ Len(ai_hist) = 3
    /\ ai_hist[1].enable /\ ai_hist[1].sender = "@alice:ex"
    /\ ai_hist[2].enable /\ ai_hist[2].sender = "@bob:ex"
    /\ ~ai_hist[3].enable /\ ai_hist[3].sender = "@bob:ex"
    /\ mem_autoinvite_users.users = <<"@alice:ex">>

\* C4 (as claimed): a skip/unskip command from an authorised sender with a flag
\* outside {name, description, avatar} is answered with the error and leaves
\* "picard.options" as it was.
C4_UnknownFlagRejected ==
    \A i \in DOMAIN sk_hist :
        (sk_hist[i].sender \in users_as_admin /\ sk_hist[i].flag \notin flags)
            => /\ "must be one of" \in Range(sk_hist[i].responses)
               /\ sk_hist[i].after = sk_hist[i].before

\* C23: a skip/unskip command from a sender outside users_as_admin reads and
\* writes nothing of "picard.options"; one from an authorised sender with a
\* valid flag sets the key skip_room_<flag> of the room it was sent in and
\* leaves every other key of that room, and every other room, as it was.
C23_SkipFrame ==
    /\ sk_cmd.pc # "idle" => sk_cmd.sender \in users_as_admin
    /\ \A i \in DOMAIN sk_hist :
          LET h == sk_hist[i]
          IN  /\ h.sender \notin users_as_admin =>
                    (h.after = h.before /\ h.responses = <<"not authorised">>)
              /\ (h.sender \in users_as_admin /\ h.flag \in flags) =>
                    /\ DOMAIN h.after = DOMAIN h.before
                    /\ \A r \in DOMAIN h.before \ {h.room} : h.after[r] = h.before[r]
                    /\ DOMAIN h.after[h.room]
                          = DOMAIN h.before[h.room] \cup {SkipKey(h.flag)}
                    /\ h.after[h.room][SkipKey(h.flag)] = h.skip
                    /\ \A k \in DOMAIN h.before[h.room] \ {SkipKey(h.flag)} :
                          h.after[h.room][k] = h.before[h.room][k]

C23_Witness ==
    /\ Len(sk_hist) = 2
    /\ sk_hist[2].sender \in users_as_admin
    /\ sk_hist[2].flag = "avatar"
    /\ sk_hist[2].before[sk_hist[2].room] # EmptyMap
    /\ SkipKey("avatar") \notin DOMAIN sk_hist[2].before[sk_hist[2].room]
    /\ SkipKey("name") \in DOMAIN sk_hist[2].after[sk_hist[2].room]
    /\ sk_hist[2].responses = <<"settings updated">>

-----------------------------------------------------------------------------
(* Claims about the sweep                                                  *)

\* C1 (as claimed): the ledger a sweep writes holds, of the channels the sweep
\* discovered, exactly those whose pipeline ran to "Finished Adding room"; a
\* channel skipped at the appservice invite is not in it.
C1_LedgerHoldsCompletedOnly ==
    \A i \in DOMAIN sw_hist :
        sw_hist[i].wrote =>
            sw_hist[i].discovered \cap DOMAIN sw_hist[i].ledger = sw_hist[i].completed

\* The calls C16 names, which follow the appservice invite in the loop body.
AfterInviteCalls ==
    {"set_power_levels", "set_related_groups", "link", "add_room_to_group", "finished"}

StoppedAtInvite(c, calls) ==
    /\ <<c, "error: skipping channel">> \in calls
    /\ \A k \in AfterInviteCalls : <<c, k>> \notin calls

\* C16: a channel whose appservice invite fails (not "already in the room")
\* stops there: the error is reported and no power-level write, related-groups
\* update, link command, community add or "Finished Adding room" is issued for
\* it; the sweep is not ended by it and goes on with the next channel.
C16_FailedInviteStopsChannel ==
    /\ \A s \in Sweeps :
          /\ \A c \in sw[s].skipped :
                StoppedAtInvite(c, sw_calls[s]) /\ c \notin sw[s].completed
          /\ sw[s].channel_id \in sw[s].skipped => sw[s].pc \in {"loop", "commit"}
    /\ \A i \in DOMAIN sw_hist :
          /\ \A c \in sw_hist[i].skipped :
                StoppedAtInvite(c, sw_hist[i].calls) /\ c \notin sw_hist[i].completed
          /\ sw_hist[i].aborted # "invite_appservice"
          /\ (sw_hist[i].skipped # {} /\ sw_hist[i].aborted = "no")
                => sw_hist[i].discovered \subseteq sw_hist[i].started

C16_Witness ==
    \E i \in DOMAIN sw_hist :
        /\ sw_hist[i].skipped = {"C1"}
        /\ sw_hist[i].completed = {"C2"}
        /\ sw_hist[i].aborted = "no"
        /\ <<"C2", "link">> \in sw_hist[i].calls

\* C18 (as claimed): the ledger is append-only: a channel id in the ledger
\* when one sweep ended is in the ledger when any later sweep ends, and in the
\* ledger now, also when the reads and writes of two sweeps interleave.
C18_LedgerAppendOnly ==
    \A i \in DOMAIN sw_hist :
        /\ DOMAIN sw_hist[i].ledger \subseteq DOMAIN mem_seen_channels
        /\ \A j \in DOMAIN sw_hist :
              i < j => DOMAIN sw_hist[i].ledger \subseteq DOMAIN sw_hist[j].ledger

\* C19: with make_public set, a failure of the join-rule or of the
\* history-visibility write is caught and reported for the room, the sweep
\* is not ended by it, and the same channel goes on with the appservice
\* invite.
C19_MakePublicFailureCaught ==
    /\ \A s \in Sweeps :
          <<sw[s].channel_id, "error: not public">> \in sw_calls[s] =>
              /\ sw_config.make_public
              /\ sw[s].pc # "make_public"
              /\ sw[s].pc = "invite_appservice"
                    \/ <<sw[s].channel_id, "invite_appservice">> \in sw_calls[s]
    /\ \A i \in DOMAIN sw_hist :
          /\ sw_hist[i].aborted # "make_public"
          /\ \A c \in sw_hist[i].started :
                <<c, "error: not public">> \in sw_hist[i].calls =>
                    <<c, "invite_appservice">> \in sw_hist[i].calls

C19_Witness ==
    \E i \in DOMAIN sw_hist :
        /\ <<"C1", "error: not public">> \in sw_hist[i].calls
        /\ <<"C1", "m.room.history_visibility">> \notin sw_hist[i].calls
        /\ <<"C1", "invite_appservice">> \in sw_hist[i].calls
        /\ "C1" \in sw_hist[i].completed

\* Where a sweep can end outside the provisioning of a channel: the community
\* lookup, the member listing of join_bot_to_channel, the write of the ledger.
OutsideProvisioning == {"admin_of_community", "loop", "commit"}

\* C21 (as claimed): a sweep that discovered no new channel writes no ledger
\* and issues no call on any room; a sweep that discovered new channels, and
\* is not failed by the community lookup, the workspace or the memory, writes
\* the ledger once, after every discovered channel has been attempted.
C21_LedgerWrittenOnceAfterAll ==
    \A i \in DOMAIN sw_hist :
        LET h == sw_hist[i]
        IN  /\ h.discovered = {} => (~h.wrote /\ h.calls = {})
            /\ (h.discovered # {} /\ h.aborted \notin OutsideProvisioning)
                  => (h.wrote /\ h.started = h.discovered)

\* The steps C3 names, as values of a sweep's pc.
ProvisioningSteps ==
    {"intent_self_in_room", "set_room_name", "set_room_topic", "set_room_avatar",
     "configure_room_power_levels", "update_related_groups", "users_to_invite"}

\* C3 (as claimed): a failure raised by a provisioning step of one channel does
\* not end the sweep before the later channels of the sweep are processed.
C3_FailureLeavesLaterChannelsProcessed ==
    \A i \in DOMAIN sw_hist :
        sw_hist[i].aborted \in ProvisioningSteps =>
            sw_hist[i].discovered \subseteq sw_hist[i].started

OptionSet(c, flag) ==
    LET room_id == RoomIdOf(room_alias(ChannelName[c]))
    IN  /\ room_id \in DOMAIN mem_options
        /\ SkipKey(flag) \in DOMAIN mem_options[room_id]
        /\ mem_options[room_id][SkipKey(flag)]

\* C6 (as claimed): a sweep issues no avatar-set call for a channel whose room
\* has skip_room_avatar set, no name update with skip_room_name set and no
\* topic update with skip_room_description set.
C6_SkipOptionsHonoured ==
    \A i \in DOMAIN sw_hist : \A c \in sw_hist[i].started :
        /\ OptionSet(c, "avatar") => <<c, "set_room_avatar">> \notin sw_hist[i].calls
        /\ OptionSet(c, "name") => <<c, "set_room_name">> \notin sw_hist[i].calls
        /\ OptionSet(c, "description") => <<c, "set_room_topic">> \notin sw_hist[i].calls

====
